---- MODULE Spec2Model ----
(***************************************************************************)
(* Model of the SprintLoop desktop host bridge                             *)
(* (apps/desktop/src-tauri/src/lib.rs): six Tauri commands that pass       *)
(* through to the operating system's file system.                          *)
(*                                                                         *)
(* Strings are sequences of Unicode code points, file contents and OS file *)
(* names are sequences of bytes.  A Rust String reaches the disk as its    *)
(* UTF-8 encoding (Utf8) and comes back through a validating decoder       *)
(* (FromUtf8); an OS file name becomes a String through the lossy decoder  *)
(* (ToStringLossy).                                                        *)
(***************************************************************************)
EXTENDS Integers, Sequences, FiniteSets, TLC

\* ------------------------------------------------------------------ bounds
\* longest content string (in code points) a caller passes to write_file_content
MaxLen == 2
\* most children the listed directory holds before any bridge call
MaxChildren == 3

\* ------------------------------------------------------- strings and bytes
\* U+FFFD REPLACEMENT CHARACTER, what to_string_lossy puts for an invalid byte
ReplacementChar == 65533
\* clock ticks in a second: Duration::as_secs drops the sub-second part
\* (a Duration counts tickseconds; the model counts milliseconds)
TicksPerSec == 1000

\* code points a caller's content is made of: newline and U+00E9 (two bytes)
Chars == {10, 233}

RECURSIVE SeqsUpTo(_, _)
SeqsUpTo(S, n) ==
  IF n = 0 THEN {<<>>}
  ELSE LET shorter == SeqsUpTo(S, n - 1)
       IN  shorter \cup {Append(s, c) : s \in {t \in shorter : Len(t) = n - 1}, c \in S}

Strings == SeqsUpTo(Chars, MaxLen)

\* String::as_bytes: the UTF-8 encoding of one code point (below U+0800)
Utf8Char(c) == IF c < 128 THEN <<c>> ELSE <<192 + (c \div 64), 128 + (c % 64)>>

RECURSIVE Utf8(_)
Utf8(s) == IF s = <<>> THEN <<>> ELSE Utf8Char(Head(s)) \o Utf8(Tail(s))

IsCont(b) == b >= 128 /\ b <= 191
IsLead2(b) == b >= 194 /\ b <= 223

\* String::from_utf8 as read_to_string applies it: the decoded string, or
\* failure on the first byte sequence that is not well-formed UTF-8
RECURSIVE FromUtf8(_)
FromUtf8(bytes) ==
  IF bytes = <<>> THEN [ok |-> TRUE, s |-> <<>>]
  ELSE IF Head(bytes) < 128
       THEN LET r == FromUtf8(Tail(bytes))
            IN  [ok |-> r.ok, s |-> <<Head(bytes)>> \o r.s]
  ELSE IF IsLead2(Head(bytes)) /\ Len(bytes) >= 2 /\ IsCont(bytes[2])
       THEN LET r == FromUtf8(Tail(Tail(bytes)))
            IN  [ok |-> r.ok,
                 s |-> <<(Head(bytes) - 192) * 64 + (bytes[2] - 128)>> \o r.s]
  ELSE [ok |-> FALSE, s |-> <<>>]

\* OsStr::to_string_lossy: well-formed sequences decode, every other byte
\* becomes U+FFFD
RECURSIVE ToStringLossy(_)
ToStringLossy(bytes) ==
  IF bytes = <<>> THEN <<>>
  ELSE IF Head(bytes) < 128 THEN <<Head(bytes)>> \o ToStringLossy(Tail(bytes))
  ELSE IF IsLead2(Head(bytes)) /\ Len(bytes) >= 2 /\ IsCont(bytes[2])
       THEN <<(Head(bytes) - 192) * 64 + (bytes[2] - 128)>>
              \o ToStringLossy(Tail(Tail(bytes)))
  ELSE <<ReplacementChar>> \o ToStringLossy(Tail(bytes))

\* char::to_lowercase on Basic Latin and Latin-1
LowerChar(c) ==
  IF c >= 65 /\ c <= 90 THEN c + 32
  ELSE IF c >= 192 /\ c <= 222 /\ c # 215 THEN c + 32
  ELSE c

\* str::to_lowercase
ToLowercase(s) == [i \in 1..Len(s) |-> LowerChar(s[i])]

\* Ord for String: lexicographic on the bytes, which is code point order
RECURSIVE StrCmp(_, _)
StrCmp(a, b) ==
  IF a = <<>> /\ b = <<>> THEN "Equal"
  ELSE IF a = <<>> THEN "Less"
  ELSE IF b = <<>> THEN "Greater"
  ELSE IF Head(a) < Head(b) THEN "Less"
  ELSE IF Head(a) > Head(b) THEN "Greater"
  ELSE StrCmp(Tail(a), Tail(b))

\* ------------------------------------------------------------- file system
\* The world is one directory DirPath with children named from Names, and
\* nothing else: MissingPath and everything below it do not exist.
NameUpperA == <<65>>
NameLowerA == <<97>>
\* 'B' and a byte that is not UTF-8: "B\u{FFFD}" once decoded
NameInvalid == <<66, 255>>
NameATxt == <<97, 46, 116, 120, 116>>
NameBTxt == <<98, 46, 116, 120, 116>>
Names == {NameUpperA, NameLowerA, NameInvalid, NameATxt, NameBTxt}

Slash == <<47>>
DirPath == <<100>>
MissingPath == <<109>>
FilePath == DirPath \o Slash \o NameATxt
OrphanPath == MissingPath \o Slash \o NameATxt
Paths == {DirPath, MissingPath, FilePath, OrphanPath}

\* the time of the bridge calls, in ticks since the Unix epoch
Now == 3 * TicksPerSec + 1

Absent == [kind |-> "absent", data |-> <<>>, dlen |-> 0, avail |-> FALSE, ticks |-> 0]
\* a child the directory enumerates but whose metadata cannot be fetched
NoStat == [kind |-> "nostat", data |-> <<>>, dlen |-> 0, avail |-> FALSE, ticks |-> 0]
DirNode(dlen, avail, ticks) ==
  [kind |-> "dir", data |-> <<>>, dlen |-> dlen, avail |-> avail, ticks |-> ticks]
FileNode(data, avail, ticks) ==
  [kind |-> "file", data |-> data, dlen |-> 0, avail |-> avail, ticks |-> ticks]

\* what a child can be before the bridge touches it
InitNodes ==
  { NoStat,
    DirNode(4096, TRUE, 2 * TicksPerSec + 500),
    FileNode(<<255, 97>>, TRUE, 0 - 1500),
    FileNode(<<97, 10>>, FALSE, 0) }

\* ------------------------------------------------------------------- state
VARIABLES
  fs,       \* the file system: [root, ch], the directory and its children
  home,     \* the HOME directory the environment resolves, <<>> when it cannot
  call,     \* the bridge call that ran last, with its inputs
  result,   \* what that call returned to the frontend
  written,  \* the content of the last write to FilePath, while nothing else wrote it
  rd,       \* a read_directory in progress, system call by system call
  th,       \* two file calls in progress side by side, system call by system call
  base      \* what FilePath held before the calls of th began

vars == <<fs, home, call, result, written, rd, th, base>>

\* the calls in progress, which the serial bridge does not have
inflight == <<rd, th, base>>

\* no read_directory in progress
RdIdle ==
  [pc |-> "idle", path |-> <<>>, goneAtOpen |-> FALSE, order |-> <<>>,
   todo |-> <<>>, entries |-> <<>>]

\* the two threads the framework may run commands on
Threads == {1, 2}

\* a thread that runs no call
ThIdle ==
  [pc |-> "idle", op |-> "none", content |-> <<>>, buf |-> <<>>,
   ok |-> FALSE, text |-> <<>>]

Quiet == rd = RdIdle /\ th = [t \in Threads |-> ThIdle] /\ base = Absent

\* std::fs::metadata(path): the node a path names
Stat(f, path) ==
  IF f.root # "dir" THEN Absent
  ELSE IF path = DirPath THEN DirNode(4096, TRUE, Now)
  ELSE IF \E n \in Names : path = DirPath \o Slash \o n
       THEN f.ch[CHOOSE n \in Names : path = DirPath \o Slash \o n]
  ELSE Absent

\* Path::exists
Exists(f, path) == Stat(f, path).kind \in {"dir", "file"}

\* the names fs::read_dir(DirPath) enumerates
Listed(f) == {n \in Names : f.ch[n].kind # "absent"}

\* o lists every name of S once
IsOrder(o, S) == Len(o) = Cardinality(S) /\ {o[i] : i \in 1..Len(o)} = S

\* every order in which the OS may enumerate a set of names
Orders(S) == {o \in [1..Cardinality(S) -> S] : IsOrder(o, S)}

\* -------------------------------------------------------------- results
NoValue == [ok |-> FALSE, err |-> "", entries |-> <<>>, text |-> <<>>, info |-> <<>>]
Err(msg) == [NoValue EXCEPT !.err = msg]
OkUnit == [NoValue EXCEPT !.ok = TRUE]
OkText(s) == [NoValue EXCEPT !.ok = TRUE, !.text = s]
OkEntries(es) == [NoValue EXCEPT !.ok = TRUE, !.entries = es]
OkInfo(i) == [NoValue EXCEPT !.ok = TRUE, !.info = i]

\* no write to FilePath is known to stand
NoWrite == [set |-> FALSE, s |-> <<>>]

\* call: the command, its arguments, the order the OS enumerated the
\* directory in, the bytes the device took, and what the path named and
\* `written` held when the call began
NoCall ==
  [op |-> "none", path |-> <<>>, content |-> <<>>, order |-> <<>>,
   accepted |-> 0, before |-> Absent, prior |-> NoWrite]

\* ---------------------------------------------------------------- greet
HelloPrefix == <<72, 101, 108, 108, 111, 44, 32>>
HelloSuffix ==
  <<33, 32, 87, 101, 108, 99, 111, 109, 101, 32, 116, 111, 32,
    83, 112, 114, 105, 110, 116, 76, 111, 111, 112, 46>>
GreetNames == {<<>>, <<97>>}

GreetOutcome(name) == OkText(HelloPrefix \o name \o HelloSuffix)

Greet(name) ==
  /\ call' = [NoCall EXCEPT !.op = "greet", !.content = name]
  /\ result' = GreetOutcome(name)
  /\ UNCHANGED <<fs, home, written, inflight>>

\* ------------------------------------------------------ get_system_info
SystemInfoOutcome == OkInfo(<<"linux", "x86_64", "unix">>)

GetSystemInfo ==
  /\ call' = [NoCall EXCEPT !.op = "get_system_info"]
  /\ result' = SystemInfoOutcome
  /\ UNCHANGED <<fs, home, written, inflight>>

\* --------------------------------------------------------- get_home_dir
HomeDirOutcome(h) ==
  IF h = <<>> THEN Err("Could not determine home directory")
  ELSE OkText(ToStringLossy(h))

GetHomeDir ==
  /\ call' = [NoCall EXCEPT !.op = "get_home_dir"]
  /\ result' = HomeDirOutcome(home)
  /\ UNCHANGED <<fs, home, written, inflight>>

\* ------------------------------------------------------- read_directory
\* Modified without unwrap_or_default: a time before the epoch goes through
ModifiedSigned(node) ==
  IF ~node.avail THEN 0 ELSE node.ticks \div TicksPerSec

\* metadata.modified().map(|t| t.duration_since(UNIX_EPOCH)
\*     .unwrap_or_default().as_secs()).unwrap_or(0)
Modified(node) ==
  IF ~node.avail THEN 0
  ELSE IF node.ticks < 0 THEN 0
  ELSE node.ticks \div TicksPerSec

\* Metadata::len reported as 0 for whatever is not a regular file
MetaLenFilesOnly(node) == IF node.kind = "file" THEN Len(node.data) ELSE 0

\* Metadata::len
MetaLen(node) == IF node.kind = "file" THEN Len(node.data) ELSE node.dlen

\* the FileEntry pushed for a child whose metadata was fetched
MakeEntry(path, name, node) ==
  [name |-> ToStringLossy(name),
   path |-> ToStringLossy(path \o Slash \o name),
   is_dir |-> node.kind = "dir",
   size |-> MetaLen(node),
   modified |-> Modified(node)]

\* the metadata check left out: every enumerated child gets an entry
MetadataAssumedOk(node) == TRUE

\* if let Ok(metadata) = entry.metadata()
MetadataOk(node) == node.kind \in {"dir", "file"}

\* the loop over read_dir.flatten(): entries in enumeration order
RECURSIVE Collect(_, _, _)
Collect(f, path, order) ==
  IF order = <<>> THEN <<>>
  ELSE LET node == f.ch[Head(order)]
           rest == Collect(f, path, Tail(order))
       IN  IF MetadataOk(node) THEN <<MakeEntry(path, Head(order), node)>> \o rest
           ELSE rest

\* the closure without to_lowercase
CompareCaseSensitive(a, b) ==
  IF a.is_dir /\ ~b.is_dir THEN "Less"
  ELSE IF ~a.is_dir /\ b.is_dir THEN "Greater"
  ELSE StrCmp(a.name, b.name)

\* the closure given to sort_by
Compare(a, b) ==
  IF a.is_dir /\ ~b.is_dir THEN "Less"
  ELSE IF ~a.is_dir /\ b.is_dir THEN "Greater"
  ELSE StrCmp(ToLowercase(a.name), ToLowercase(b.name))

\* an insertion that puts x in front of the elements it is Equal to
RECURSIVE InsertBeforeEqual(_, _)
InsertBeforeEqual(sorted, x) ==
  IF sorted = <<>> THEN <<x>>
  ELSE IF Compare(x, Head(sorted)) # "Greater" THEN <<x>> \o sorted
  ELSE <<Head(sorted)>> \o InsertBeforeEqual(Tail(sorted), x)

\* one insertion of a stable sort: x goes behind every element it is not
\* Less than
RECURSIVE InsertStable(_, _)
InsertStable(sorted, x) ==
  IF sorted = <<>> THEN <<x>>
  ELSE IF Compare(x, Head(sorted)) = "Less" THEN <<x>> \o sorted
  ELSE <<Head(sorted)>> \o InsertStable(Tail(sorted), x)

\* Vec::sort_by, a stable sort
RECURSIVE SortFrom(_, _)
SortFrom(sorted, todo) ==
  IF todo = <<>> THEN sorted
  ELSE SortFrom(InsertStable(sorted, Head(todo)), Tail(todo))

SortBy(es) == SortFrom(<<>>, es)

ReadDirectoryOutcome(f, path, order) ==
  IF ~Exists(f, path) THEN Err("Path does not exist")
  ELSE IF Stat(f, path).kind # "dir" THEN Err("Failed to read directory")
  ELSE OkEntries(SortBy(Collect(f, path, order)))

\* the names fs::read_dir(path) yields: the children of DirPath
Enumerated(f, path) == IF path = DirPath /\ f.root = "dir" THEN Listed(f) ELSE {}

ReadDirectory(path, order) ==
  /\ IsOrder(order, Enumerated(fs, path))
  /\ call' = [NoCall EXCEPT !.op = "read_directory", !.path = path, !.order = order]
  /\ result' = ReadDirectoryOutcome(fs, path, order)
  /\ UNCHANGED <<fs, home, written, inflight>>

\* ---------------------------------------------------- read_file_content
\* a string without its trailing newlines
RECURSIVE TrimEnd(_)
TrimEnd(s) ==
  IF s # <<>> /\ s[Len(s)] = 10 THEN TrimEnd(SubSeq(s, 1, Len(s) - 1)) ELSE s

\* read_to_string followed by a trim of the text
ReadFileOutcomeTrimmed(f, path) ==
  LET node == Stat(f, path)
  IN  IF node.kind # "file" THEN Err("Failed to read file")
      ELSE IF ~FromUtf8(node.data).ok THEN Err("Failed to read file")
      ELSE OkText(TrimEnd(FromUtf8(node.data).s))

\* fs::read_to_string: open, read to the end, validate as UTF-8
ReadFileOutcome(f, path) ==
  LET node == Stat(f, path)
  IN  IF node.kind # "file" THEN Err("Failed to read file")
      ELSE IF ~FromUtf8(node.data).ok THEN Err("Failed to read file")
      ELSE OkText(FromUtf8(node.data).s)

ReadFileContent(path) ==
  /\ call' = [NoCall EXCEPT !.op = "read_file_content", !.path = path,
                            !.before = Stat(fs, path)]
  /\ result' = ReadFileOutcome(fs, path)
  /\ UNCHANGED <<fs, home, written, inflight>>

\* --------------------------------------------------- write_file_content
\* the child of DirPath a path names
ChildName(path) == CHOOSE n \in Names : path = DirPath \o Slash \o n
IsChildPath(path) == \E n \in Names : path = DirPath \o Slash \o n

\* File::create(path): open with O_WRONLY | O_CREAT | O_TRUNC succeeds on a
\* regular file or a free name in an existing directory
CanCreate(f, path) ==
  /\ f.root = "dir"
  /\ IsChildPath(path)
  /\ Stat(f, path).kind \in {"absent", "file"}

\* the bytes a file holds once `bytes` were written at its end (O_APPEND)
OverwriteAppending(old, bytes) == old \o bytes

\* the bytes a file holds once `bytes` were written from offset 0 over `old`
Overwrite(old, bytes) ==
  IF Len(bytes) >= Len(old) THEN bytes
  ELSE bytes \o SubSeq(old, Len(bytes) + 1, Len(old))

\* a file opened without O_TRUNC keeps what it held
NotTruncated(old) == old

\* the file after File::create: created or truncated to nothing
Truncated(old) == <<>>

\* fs::write that removes the file again when write_all fails
FsAfterWriteCleaningUp(f, path, content, accepted) ==
  IF ~CanCreate(f, path) THEN f
  ELSE IF accepted < Len(Utf8(content)) THEN [f EXCEPT !.ch[ChildName(path)] = Absent]
  ELSE [f EXCEPT !.ch[ChildName(path)] = FileNode(Utf8(content), TRUE, Now)]

\* fs::write(path, content): create/truncate, then write_all; the device
\* takes `accepted` bytes and fails the call when that is not all of them
FsAfterWrite(f, path, content, accepted) ==
  IF ~CanCreate(f, path) THEN f
  ELSE LET old == Stat(f, path).data
           data == Overwrite(Truncated(old), SubSeq(Utf8(content), 1, accepted))
       IN  [f EXCEPT !.ch[ChildName(path)] = FileNode(data, TRUE, Now)]

WriteFileOutcome(f, path, content, accepted) ==
  IF ~CanCreate(f, path) THEN Err("Failed to write file")
  ELSE IF accepted < Len(Utf8(content)) THEN Err("Failed to write file")
  ELSE OkUnit

\* the device is asked to take bytes only once the file is open
Acceptable(f, path, content) ==
  IF CanCreate(f, path) THEN 0..Len(Utf8(content)) ELSE {0}

WritePaths == {FilePath, DirPath, OrphanPath}

WriteFileContent(path, content, accepted) ==
  /\ accepted \in Acceptable(fs, path, content)
  /\ call' = [NoCall EXCEPT !.op = "write_file_content", !.path = path,
                            !.content = content, !.accepted = accepted,
                            !.before = Stat(fs, path),
                            !.prior = IF path = FilePath THEN written ELSE NoWrite]
  /\ result' = WriteFileOutcome(fs, path, content, accepted)
  /\ fs' = FsAfterWrite(fs, path, content, accepted)
  /\ written' = IF path # FilePath THEN written
                ELSE [set |-> result'.ok, s |-> IF result'.ok THEN content ELSE <<>>]
  /\ UNCHANGED <<home, inflight>>

\* ----------------------------------------------------- the bridge, serial
HomePath == <<47, 104>>

\* the file systems the bridge starts on: FilePath is anything a child can
\* be, next to it there may be a subdirectory
BridgeFs ==
  {f \in [root : {"dir"}, ch : [Names -> InitNodes \cup {Absent}]] :
     /\ Listed(f) \subseteq {NameATxt, NameUpperA}
     /\ f.ch[NameUpperA].kind \in {"absent", "dir"}}

Init ==
  /\ fs \in BridgeFs
  /\ home \in {<<>>, HomePath}
  /\ call = NoCall
  /\ result = NoValue
  /\ written = NoWrite
  /\ Quiet

Next ==
  \/ \E name \in GreetNames : Greet(name)
  \/ GetSystemInfo
  \/ GetHomeDir
  \/ \E path \in Paths : \E order \in Orders(Enumerated(fs, path)) :
       ReadDirectory(path, order)
  \/ \E path \in Paths : ReadFileContent(path)
  \/ \E path \in WritePaths : \E content \in Strings :
       \E accepted \in Acceptable(fs, path, content) :
         WriteFileContent(path, content, accepted)

Spec == Init /\ [][Next]_vars

\* --------------------------------------------- read_directory on its own
\* every directory of at most MaxChildren children, each anything a child
\* can be, listed in every order the OS may enumerate it
InitFs ==
  {f \in [root : {"dir"}, ch : [Names -> InitNodes \cup {Absent}]] :
     Cardinality(Listed(f)) <= MaxChildren}

InitList ==
  /\ fs \in InitFs
  /\ home = HomePath
  /\ call = NoCall
  /\ result = NoValue
  /\ written = NoWrite
  /\ Quiet

NextList ==
  \E path \in Paths : \E order \in Orders(Enumerated(fs, path)) :
    ReadDirectory(path, order)

SpecList == InitList /\ [][NextList]_vars

\* ------------------------------- read_directory, system call by system call
\* The same function as ReadDirectoryOutcome, one step per call into the
\* OS, while other processes remove what it is listing.

\* if !path.exists() { return Err(..) }
RdCheck(path) ==
  /\ rd.pc \in {"idle", "done"}
  /\ call' = [NoCall EXCEPT !.op = "read_directory", !.path = path]
  /\ IF Exists(fs, path)
     THEN /\ rd' = [RdIdle EXCEPT !.pc = "checked", !.path = path]
          /\ result' = NoValue
     ELSE /\ rd' = [RdIdle EXCEPT !.pc = "done", !.path = path, !.goneAtOpen = TRUE]
          /\ result' = Err("Path does not exist")
  /\ UNCHANGED <<fs, home, written, th, base>>

\* match fs::read_dir(&path): the Err arm returns, the Ok arm holds the
\* names the OS enumerates, in its order
RdOpen(order) ==
  /\ rd.pc = "checked"
  /\ IsOrder(order, Enumerated(fs, rd.path))
  /\ IF Stat(fs, rd.path).kind = "dir"
     THEN /\ rd' = [rd EXCEPT !.pc = "opened", !.order = order, !.todo = order]
          /\ UNCHANGED <<call, result>>
     ELSE /\ rd' = [rd EXCEPT !.pc = "done", !.goneAtOpen = ~Exists(fs, rd.path)]
          /\ result' = Err("Failed to read directory")
          /\ UNCHANGED call
  /\ UNCHANGED <<fs, home, written, th, base>>

\* one turn of the loop: entry.metadata() on the next name, as the file
\* system is now
RdEntry ==
  /\ rd.pc = "opened"
  /\ rd.todo # <<>>
  /\ LET node == Stat(fs, rd.path \o Slash \o Head(rd.todo))
     IN  rd' = [rd EXCEPT
                  !.todo = Tail(rd.todo),
                  !.entries = IF MetadataOk(node)
                              THEN Append(rd.entries, MakeEntry(rd.path, Head(rd.todo), node))
                              ELSE rd.entries]
  /\ UNCHANGED <<fs, home, call, result, written, th, base>>

\* entries.sort_by(..); Ok(entries)
RdReturn ==
  /\ rd.pc = "opened"
  /\ rd.todo = <<>>
  /\ rd' = [rd EXCEPT !.pc = "done"]
  /\ call' = [call EXCEPT !.order = rd.order]
  /\ result' = OkEntries(SortBy(rd.entries))
  /\ UNCHANGED <<fs, home, written, th, base>>

\* another process removes the directory and all it holds
EnvRemoveDir ==
  /\ fs.root = "dir"
  /\ fs' = [root |-> "absent", ch |-> [n \in Names |-> Absent]]
  /\ UNCHANGED <<home, call, result, written, rd, th, base>>

\* another process removes one child
EnvRemoveChild(n) ==
  /\ fs.root = "dir"
  /\ fs.ch[n].kind # "absent"
  /\ fs' = [fs EXCEPT !.ch[n] = Absent]
  /\ UNCHANGED <<home, call, result, written, rd, th, base>>

InitRace ==
  /\ fs \in BridgeFs
  /\ home = HomePath
  /\ call = NoCall
  /\ result = NoValue
  /\ written = NoWrite
  /\ Quiet

NextRace ==
  \/ \E path \in Paths : RdCheck(path)
  \/ \E order \in Orders(Enumerated(fs, rd.path)) : RdOpen(order)
  \/ RdEntry
  \/ RdReturn
  \/ EnvRemoveDir
  \/ \E n \in Names : EnvRemoveChild(n)

SpecRace == InitRace /\ [][NextRace]_vars

\* C4: read_directory of a path that does not exist fails with the "Path
\* does not exist" error and returns no entry, also when the path stopped
\* existing between the existence check and the enumeration: a path that is
\* gone when the directory is to be enumerated is never reported as "Failed
\* to read directory".
C4_MissingPathIsNotFound ==
  (rd.pc = "done" /\ rd.goneAtOpen) =>
    /\ ~result.ok
    /\ result.err = "Path does not exist"
    /\ result.entries = <<>>

\* ------------------- two file calls side by side, system call by system call
\* read_file_content and write_file_content on FilePath, run by two threads
\* of the framework at once.  fs::write is File::create followed by
\* write_all, fs::read_to_string is File::open followed by reads up to the
\* end of the file and the UTF-8 check; each of them is one step here.

\* the command arrives on a thread
ThStart(t, op, content) ==
  /\ th[t].pc = "idle"
  /\ th' = [th EXCEPT ![t] = [ThIdle EXCEPT !.pc = "open", !.op = op, !.content = content]]
  /\ UNCHANGED <<fs, home, call, result, written, rd, base>>

\* fs::write, first half: File::create creates or truncates the file
WrCreate(t) ==
  /\ th[t].pc = "open"
  /\ th[t].op = "write_file_content"
  /\ IF CanCreate(fs, FilePath)
     THEN /\ fs' = [fs EXCEPT !.ch[NameATxt] =
                      FileNode(Truncated(Stat(fs, FilePath).data), TRUE, Now)]
          /\ th' = [th EXCEPT ![t].pc = "opened"]
     ELSE /\ th' = [th EXCEPT ![t].pc = "done"]
          /\ UNCHANGED fs
  /\ UNCHANGED <<home, call, result, written, rd, base>>

\* fs::write, second half: write_all puts the bytes at this handle's
\* offset, 0, into whatever the file holds by now
WrWriteAll(t) ==
  /\ th[t].pc = "opened"
  /\ th[t].op = "write_file_content"
  /\ fs' = [fs EXCEPT !.ch[NameATxt] =
              FileNode(Overwrite(fs.ch[NameATxt].data, Utf8(th[t].content)), TRUE, Now)]
  /\ th' = [th EXCEPT ![t].pc = "done", ![t].ok = TRUE]
  /\ UNCHANGED <<home, call, result, written, rd, base>>

\* fs::read_to_string, first step: File::open
RdFileOpen(t) ==
  /\ th[t].pc = "open"
  /\ th[t].op = "read_file_content"
  /\ th' = [th EXCEPT ![t].pc = IF Stat(fs, FilePath).kind = "file" THEN "opened" ELSE "done"]
  /\ UNCHANGED <<fs, home, call, result, written, rd, base>>

\* fs::read_to_string, the read loop: each read takes what the file holds
\* beyond this handle's offset; a read of nothing is the end of the file,
\* and the bytes read so far are checked and returned
RdFileRead(t) ==
  /\ th[t].pc = "opened"
  /\ th[t].op = "read_file_content"
  /\ LET data == fs.ch[NameATxt].data
         more == SubSeq(data, Len(th[t].buf) + 1, Len(data))
     IN  IF more # <<>>
         THEN th' = [th EXCEPT ![t].buf = th[t].buf \o more]
         ELSE th' = [th EXCEPT ![t].pc = "done",
                               ![t].ok = FromUtf8(th[t].buf).ok,
                               ![t].text = FromUtf8(th[t].buf).s]
  /\ UNCHANGED <<fs, home, call, result, written, rd, base>>

\* FilePath is absent, or a file some earlier write_file_content left
InitConc ==
  /\ base \in {Absent} \cup {FileNode(Utf8(s), TRUE, Now) : s \in Strings}
  /\ fs = [root |-> "dir", ch |-> [n \in Names |-> IF n = NameATxt THEN base ELSE Absent]]
  /\ home = HomePath
  /\ call = NoCall
  /\ result = NoValue
  /\ written = NoWrite
  /\ rd = RdIdle
  /\ th = [t \in Threads |-> ThIdle]

NextConc ==
  \/ \E t \in Threads : \E s \in Strings : ThStart(t, "write_file_content", s)
  \/ \E t \in Threads : ThStart(t, "read_file_content", <<>>)
  \/ \E t \in Threads : WrCreate(t)
  \/ \E t \in Threads : WrWriteAll(t)
  \/ \E t \in Threads : RdFileOpen(t)
  \/ \E t \in Threads : RdFileRead(t)

SpecConc == InitConc /\ [][NextConc]_vars

AllDone == \A t \in Threads : th[t].pc = "done"
Writer(t) == th[t].op = "write_file_content"
Reader(t) == th[t].op = "read_file_content"

\* the byte a content has at a position, 0 - 1 beyond its end
ByteAt(bytes, i) == IF i <= Len(bytes) THEN bytes[i] ELSE 0 - 1

\* what read_file_content returns on a file holding `bytes`
ReadOf(bytes) == [ok |-> FromUtf8(bytes).ok, text |-> FromUtf8(bytes).s]

\* C8 as claimed: no interleaving of two calls on one path changes an
\* outcome.  Two concurrent writes leave exactly the one content or exactly
\* the other; a read concurrent with a write returns exactly what the file
\* held before the write or exactly what was written.
C8_ConcurrentCallsAreAtomic ==
  AllDone =>
    /\ (Writer(1) /\ Writer(2)) =>
         fs.ch[NameATxt].data \in {Utf8(th[1].content), Utf8(th[2].content)}
    /\ \A r, w \in Threads :
         (Reader(r) /\ Writer(w) /\ base.kind = "file") =>
           [ok |-> th[r].ok, text |-> th[r].text]
             \in {ReadOf(base.data), ReadOf(Utf8(th[w].content))}

\* C8 as the code has it: the calls share the file.  After two concurrent
\* writes the file is as long as one of the two contents and holds at every
\* position the byte of one of them at that position; every byte a
\* concurrent read was given at a position is the byte at that position of
\* what the file held before or of a written content, and the read has
\* taken no more bytes than the longest of these.
C8_ConcurrentCallsMixContents ==
  AllDone =>
    /\ (Writer(1) /\ Writer(2)) =>
         LET data == fs.ch[NameATxt].data
             b1 == Utf8(th[1].content)
             b2 == Utf8(th[2].content)
         IN  /\ Len(data) \in {Len(b1), Len(b2)}
             /\ \A i \in 1..Len(data) : data[i] \in {ByteAt(b1, i), ByteAt(b2, i)}
    /\ \A r \in Threads :
         Reader(r) =>
           LET sources == {base.data} \cup {Utf8(th[w].content) : w \in {x \in Threads : Writer(x)}}
           IN  /\ \A i \in 1..Len(th[r].buf) :
                    th[r].buf[i] \in {ByteAt(b, i) : b \in sources}
               /\ \E b \in sources : Len(th[r].buf) <= Len(b)

\* two writes that both succeeded left a file that is neither content: the
\* start of one, the end of the other
C8_Witness ==
  /\ AllDone
  /\ Writer(1) /\ Writer(2)
  /\ th[1].ok /\ th[2].ok
  /\ fs.ch[NameATxt].data \notin {Utf8(th[1].content), Utf8(th[2].content)}

\* ============================================== claims on the serial bridge
\* C2: once write_file_content(FilePath, s) has succeeded and no other write
\* to FilePath was made since, read_file_content(FilePath) succeeds and
\* returns exactly s.
C2_ReadReturnsWhatWasWritten ==
  (call.op = "read_file_content" /\ call.path = FilePath /\ written.set) =>
    result.ok /\ result.text = written.s

\* a read that returns a written newline followed by U+00E9
C2_Witness ==
  /\ call.op = "read_file_content"
  /\ call.path = FilePath
  /\ written.set
  /\ written.s = <<10, 233>>
  /\ result.ok
  /\ result.text = <<10, 233>>

\* C3: after a successful write_file_content(p, s) the file at p exists and
\* holds exactly the bytes of s, whatever it held before: a second write
\* leaves nothing of the first, and a file that was absent is created.
C3_WriteReplacesContent ==
  (call.op = "write_file_content" /\ result.ok) =>
    /\ Stat(fs, call.path).kind = "file"
    /\ Stat(fs, call.path).data = Utf8(call.content)

\* a successful write of a string shorter than the one successfully written
\* before it
C3_Witness ==
  /\ call.op = "write_file_content"
  /\ result.ok
  /\ call.prior.set
  /\ Len(Utf8(call.prior.s)) > Len(Utf8(call.content))
  /\ Stat(fs, call.path).data = Utf8(call.content)

\* everything a later call can return, for every argument it can be given
Observable ==
  [listing |-> [p \in Paths |->
                  {ReadDirectoryOutcome(fs, p, o) : o \in Orders(Enumerated(fs, p))}],
   reading |-> [p \in Paths |-> ReadFileOutcome(fs, p)],
   writing |-> [p \in WritePaths |-> CanCreate(fs, p)],
   homedir |-> HomeDirOutcome(home)]

\* a result is a success value or an error string, one of the two
WellFormed(r) == r.ok = (r.err = "")

\* C7 as claimed: every call returns a success or an error string, and after
\* a failed call every later call returns what it would have returned had
\* the failed call not been made.
C7_FailedCallsLeaveNoTrace ==
  [][ /\ WellFormed(result')
      /\ ~result'.ok => Observable' = Observable ]_vars

\* C7 as the code has it: every call returns a success or an error string
\* and leaves every command callable; a failed call other than
\* write_file_content leaves the file system and the environment, all that
\* a later call's result depends on, as they were; a failed
\* write_file_content either changes nothing (the file could not be opened)
\* or leaves its target a file holding a proper prefix of the content, empty
\* included, and changes nothing else.
C7_OnlyFailedWritesLeaveATrace ==
  /\ [](ENABLED GetSystemInfo /\ ENABLED GetHomeDir
        /\ (\A name \in GreetNames : ENABLED Greet(name))
        /\ (\A p \in Paths : ENABLED ReadFileContent(p))
        /\ (\A p \in Paths : \E o \in Orders(Enumerated(fs, p)) :
              ENABLED ReadDirectory(p, o))
        /\ (\A p \in WritePaths : \A s \in Strings :
              ENABLED WriteFileContent(p, s, 0)))
  /\ [][ /\ WellFormed(result')
         /\ (~result'.ok /\ call'.op # "write_file_content") => <<fs, home>>' = <<fs, home>>
         /\ (~result'.ok /\ call'.op = "write_file_content") =>
              \/ fs' = fs
              \/ /\ call'.path = FilePath
                 /\ \A n \in Names \ {NameATxt} : fs'.ch[n] = fs.ch[n]
                 /\ fs'.root = fs.root
                 /\ fs'.ch[NameATxt].kind = "file"
                 /\ Len(fs'.ch[NameATxt].data) < Len(Utf8(call'.content))
                 /\ fs'.ch[NameATxt].data
                      = SubSeq(Utf8(call'.content), 1, Len(fs'.ch[NameATxt].data)) ]_vars

\* a write that failed after the file was opened left the file, which held
\* two characters, with half a character
C7_Witness ==
  /\ call.op = "write_file_content"
  /\ ~result.ok
  /\ call.prior.set
  /\ Len(call.prior.s) = 2
  /\ Stat(fs, FilePath).data = <<195>>

\* ===================================================== read_directory claims
\* the last call was a read_directory of the directory and it succeeded
Listing == call.op = "read_directory" /\ call.path = DirPath /\ result.ok

\* the place of a returned entry's child in the OS enumeration
EnumIndex(e) ==
  CHOOSE k \in 1..Len(call.order) :
    e.path = ToStringLossy(call.path \o Slash \o call.order[k])

\* the child a returned entry was made from
ChildOf(e) == fs.ch[call.order[EnumIndex(e)]]

LeqLower(a, b) == StrCmp(ToLowercase(a), ToLowercase(b)) \in {"Less", "Equal"}

\* C1: in every successful listing all directories come before all files,
\* and inside each of the two groups the lower-cased names ascend, whatever
\* the children and the enumeration order.
C1_DirsFirstThenByName ==
  Listing =>
    \A i, j \in 1..Len(result.entries) :
      i < j =>
        /\ ~(~result.entries[i].is_dir /\ result.entries[j].is_dir)
        /\ result.entries[i].is_dir = result.entries[j].is_dir
             => LeqLower(result.entries[i].name, result.entries[j].name)

\* the spec's example: ["b.txt", "A", "a.txt"] with A a subdirectory comes
\* back as ["A", "a.txt", "b.txt"]
C1_Witness ==
  /\ Listing
  /\ call.order = <<NameBTxt, NameUpperA, NameATxt>>
  /\ fs.ch[NameUpperA].kind = "dir"
  /\ fs.ch[NameBTxt].kind = "file"
  /\ fs.ch[NameATxt].kind = "file"
  /\ [i \in 1..3 |-> result.entries[i].name]
       = <<ToStringLossy(NameUpperA), ToStringLossy(NameATxt), ToStringLossy(NameBTxt)>>

\* C5: a child whose metadata cannot be fetched is left out and the call
\* still succeeds: the result holds exactly one entry for each enumerated
\* child whose metadata was fetched, and no other entry.
C5_SkipsUnreadableChildren ==
  (call.op = "read_directory" /\ call.path = DirPath) =>
    /\ result.ok
    /\ \A k \in 1..Len(call.order) :
         LET hits == {i \in 1..Len(result.entries) :
                        result.entries[i].path
                          = ToStringLossy(DirPath \o Slash \o call.order[k])}
         IN  Cardinality(hits)
               = IF fs.ch[call.order[k]].kind \in {"dir", "file"} THEN 1 ELSE 0
    /\ \A i \in 1..Len(result.entries) :
         \E k \in 1..Len(call.order) :
           result.entries[i].path = ToStringLossy(DirPath \o Slash \o call.order[k])

\* a listing of three children, one of them without metadata, returns two
C5_Witness ==
  /\ Listing
  /\ Len(call.order) = 3
  /\ \E k \in 1..3 : fs.ch[call.order[k]].kind = "nostat"
  /\ Len(result.entries) = 2

\* C6 as claimed: every returned entry that is a directory has size 0.
C6_DirectorySizeIsZero ==
  Listing =>
    \A i \in 1..Len(result.entries) :
      result.entries[i].is_dir => result.entries[i].size = 0

\* C6 as the code has it: every returned entry, directory or file, has the
\* size the OS metadata reports for that child (a file's byte count, a
\* directory's own st_size).
C6_SizeIsMetadataLen ==
  Listing =>
    \A i \in 1..Len(result.entries) :
      LET node == ChildOf(result.entries[i])
      IN  result.entries[i].size
            = IF node.kind = "dir" THEN node.dlen ELSE Len(node.data)

\* a directory entry with a size that is not 0 next to a file entry
C6_Witness ==
  /\ Listing
  /\ \E i \in 1..Len(result.entries) :
       result.entries[i].is_dir /\ result.entries[i].size > 0
  /\ \E i \in 1..Len(result.entries) :
       ~result.entries[i].is_dir /\ result.entries[i].size = 2

\* C9: two returned entries of the same kind whose lower-cased names are
\* equal keep the order in which the OS enumerated them.
C9_StableOnTies ==
  Listing =>
    \A i, j \in 1..Len(result.entries) :
      ( /\ i < j
        /\ result.entries[i].is_dir = result.entries[j].is_dir
        /\ ToLowercase(result.entries[i].name) = ToLowercase(result.entries[j].name) )
      => EnumIndex(result.entries[i]) < EnumIndex(result.entries[j])

\* "a" enumerated before "A", both files: returned in that order
C9_Witness ==
  /\ Listing
  /\ \E i, j \in 1..Len(result.entries) :
       /\ i < j
       /\ result.entries[i].name = ToStringLossy(NameLowerA)
       /\ result.entries[j].name = ToStringLossy(NameUpperA)
       /\ ~result.entries[i].is_dir /\ ~result.entries[j].is_dir

\* C10: every returned entry's modified is the whole seconds from the epoch
\* to the child's modification time when that time is available and not
\* before the epoch, and 0 otherwise; no child is dropped and no call fails
\* for its modification time.
C10_ModifiedSeconds ==
  (call.op = "read_directory" /\ call.path = DirPath) =>
    /\ result.ok
    /\ \A i \in 1..Len(result.entries) :
         LET node == ChildOf(result.entries[i])
             m == result.entries[i].modified
         IN  IF node.avail /\ node.ticks >= 0
             THEN /\ m * TicksPerSec <= node.ticks
                  /\ node.ticks < (m + 1) * TicksPerSec
             ELSE m = 0
    /\ \A k \in 1..Len(call.order) :
         fs.ch[call.order[k]].kind \in {"dir", "file"} =>
           \E i \in 1..Len(result.entries) : EnumIndex(result.entries[i]) = k

\* one listing with a time before the epoch, a time that is not available
\* and a time of 2.5 s, reported as 0, 0 and 2
C10_Witness ==
  /\ Listing
  /\ \E i \in 1..Len(result.entries) :
       LET node == ChildOf(result.entries[i])
       IN  node.avail /\ node.ticks < 0 /\ result.entries[i].modified = 0
  /\ \E i \in 1..Len(result.entries) :
       ~ChildOf(result.entries[i]).avail /\ result.entries[i].modified = 0
  /\ \E i \in 1..Len(result.entries) :
       ChildOf(result.entries[i]).ticks = 2500 /\ result.entries[i].modified = 2

====
